---- MODULE Spec2Model ----
(***************************************************************************)
(* Journaling service of the mental-health backend: the journal_entries   *)
(* table and the operations of JournalingService (create, get, list,       *)
(* update, delete, stats) over it.                                         *)
(*                                                                         *)
(* A column value is None (SQL NULL / Python None) or Some(v).             *)
(* The clock counts ticks; TicksPerSecond ticks make a second and          *)
(* TicksPerDay ticks make a day.  Dates are day ordinals in a calendar     *)
(* whose month lengths are MonthLen.                                       *)
(***************************************************************************)
EXTENDS Integers, Sequences, FiniteSets, TLC

VARIABLES store, clock, nextId, last, sessions

vars == <<store, clock, nextId, last, sessions>>

None == <<>>
Some(x) == <<x>>

(* ---------------------------- bounds ---------------------------------- *)
MaxEntries == 2        \* entries ever created in Spec
MaxClockEntries == 1   \* entries ever created in SpecClock
MaxTicks == 2          \* clock ticks in SpecClock

(* ------------------------- clock and calendar ------------------------- *)
TicksPerSecond == 2
TicksPerDay == 4

\* January, February and March of 2024.
MonthLen == <<31, 29, 31>>

RECURSIVE DaysBefore(_)
\* Ordinal of the last day before month m (day ordinals start at 1).
DaysBefore(m) == IF m = 1 THEN 0 ELSE DaysBefore(m - 1) + MonthLen[m - 1]

LastDay == DaysBefore(Len(MonthLen)) + MonthLen[Len(MonthLen)]

MonthOf(d) == CHOOSE m \in 1..Len(MonthLen) :
                 DaysBefore(m) < d /\ d <= DaysBefore(m) + MonthLen[m]

\* Variant: replace(month=1, day=1), the first day of the year.
replace_month_1_day_1(d) == 1
\* date.replace(day=1)
replace_day_1(d) == DaysBefore(MonthOf(d)) + 1

\* datetime.utcnow(): the application reads the clock at full resolution.
utcnow(c) == c

\* datetime.utcnow().date()
date_of(c) == c \div TicksPerDay

\* Variant: a timestamp rounded up to the next whole second.
DbNowCeil(c) == ((c + TicksPerSecond - 1) \div TicksPerSecond) * TicksPerSecond
\* func.now(): CURRENT_TIMESTAMP of the database, whole seconds (truncated).
DbNow(c) == (c \div TicksPerSecond) * TicksPerSecond

(* ------------------------------ columns ------------------------------- *)
Users == {"A", "B"}

DataFields == {"title", "content", "entry_date", "mood_rating",
               "energy_level", "tags"}

\* Columns declared Mapped[str] / Mapped[date]: NOT NULL.
NotNullFields == {"title", "content", "entry_date"}

IdArgs == 1..(MaxEntries + 1)

(* --------------------------- store queries ---------------------------- *)
Rows(s) == {s[i] : i \in DOMAIN s}

scalar_one_or_none(rows) == IF rows = {} THEN None
                            ELSE Some(CHOOSE r \in rows : TRUE)

\* Variant: the selection without the user_id condition.
select_entry_by_id_only(s, user_id, entry_id) ==
  scalar_one_or_none({r \in Rows(s) : r.id = entry_id})
\* SELECT ... WHERE id = :entry_id AND user_id = :user_id
select_entry(s, user_id, entry_id) ==
  scalar_one_or_none({r \in Rows(s) : r.id = entry_id /\ r.user_id = user_id})

\* The INSERT violates no NOT NULL constraint.
NotNullOk(e) == \A f \in NotNullFields : e[f] # None

\* Variant: the row is stored under another user.
new_entry_wrong_owner(id, user_id, entry_data, now) ==
  [id |-> id, user_id |-> CHOOSE u \in Users : u # user_id,
   title |-> entry_data.title, content |-> entry_data.content,
   entry_date |-> entry_data.entry_date,
   mood_rating |-> entry_data.mood_rating,
   energy_level |-> entry_data.energy_level, tags |-> entry_data.tags,
   created_at |-> now, updated_at |-> now]
\* JournalEntry(user_id=user_id, **entry_data.model_dump()) as inserted:
\* id, created_at and updated_at take their column defaults.
new_entry(id, user_id, entry_data, now) ==
  [id |-> id, user_id |-> user_id,
   title |-> entry_data.title, content |-> entry_data.content,
   entry_date |-> entry_data.entry_date,
   mood_rating |-> entry_data.mood_rating,
   energy_level |-> entry_data.energy_level, tags |-> entry_data.tags,
   created_at |-> now, updated_at |-> now]

\* Variant: model_dump() without exclude_unset, absent fields arrive as None.
apply_update_all_fields(entry, update_dict, now) ==
  [f \in DOMAIN entry |->
     IF f = "updated_at" THEN now
     ELSE IF f \in DOMAIN update_dict THEN update_dict[f]
     ELSE IF f \in DataFields THEN None
     ELSE entry[f]]
\* for field, value in update_dict.items(): setattr(entry, field, value)
\* entry.updated_at = datetime.utcnow()
apply_update(entry, update_dict, now) ==
  [f \in DOMAIN entry |->
     IF f = "updated_at" THEN now
     ELSE IF f \in DOMAIN update_dict THEN update_dict[f]
     ELSE entry[f]]

(* ------------------------------ listing ------------------------------- *)
\* Python truthiness of an Optional[date]: every date is truthy.
date_given(d) == d # None

\* Python truthiness of an Optional[str]: None and "" are falsy.
str_given(t) == t # None /\ t # Some(<<>>)

\* ASCII case folding of LIKE in SQLite.
Fold(c) == IF c = "A" THEN "a" ELSE IF c = "B" THEN "b" ELSE c

RECURSIVE Like(_, _)
\* s LIKE p: '%' matches any run of characters, '_' any one character, and
\* the other characters match themselves up to ASCII case.
Like(p, s) ==
  IF p = <<>> THEN s = <<>>
  ELSE IF Head(p) = "%"
         THEN Like(Tail(p), s) \/ (s # <<>> /\ Like(p, Tail(s)))
  ELSE /\ s # <<>>
       /\ (Head(p) = "_" \/ Fold(Head(p)) = Fold(Head(s)))
       /\ Like(Tail(p), Tail(s))

\* JournalEntry.tags.like(f"%{tags}%"); NULL LIKE p is not true.
tags_like(row_tags, tags) ==
  /\ row_tags # None
  /\ Like(<<"%">> \o tags \o <<"%">>, row_tags[1])

\* Variant: the WHERE clause without the to_date condition.
where_no_to_date(s, user_id, from_date, to_date, tags) ==
  {r \in Rows(s) :
     /\ r.user_id = user_id
     /\ (date_given(from_date) => r.entry_date[1] >= from_date[1])
     /\ (str_given(tags) => tags_like(r.tags, tags[1]))}
\* The WHERE clause get_user_entries builds.
where(s, user_id, from_date, to_date, tags) ==
  {r \in Rows(s) :
     /\ r.user_id = user_id
     /\ (date_given(from_date) => r.entry_date[1] >= from_date[1])
     /\ (date_given(to_date) => r.entry_date[1] <= to_date[1])
     /\ (str_given(tags) => tags_like(r.tags, tags[1]))}

\* ORDER BY entry_date DESC: any arrangement of the rows in which entry_date
\* never increases; the query does not fix the order of rows of one date.
order_by_desc_entry_date(rows) ==
  LET n == Cardinality(rows) IN
  {q \in [1..n -> rows] :
     /\ \A i, j \in 1..n : i # j => q[i] # q[j]
     /\ \A i \in 1..(n - 1) : q[i].entry_date[1] >= q[i + 1].entry_date[1]}

Min(a, b) == IF a <= b THEN a ELSE b

\* .offset(skip).limit(limit); SQLite reads a negative OFFSET as 0 and a
\* negative LIMIT as no limit.
offset_limit(q, skip, limit) ==
  LET off == IF skip < 0 THEN 0 ELSE skip
      hi == IF limit < 0 THEN Len(q) ELSE Min(Len(q), off + limit)
  IN  SubSeq(q, off + 1, hi)

(* ----------------------------- statistics ----------------------------- *)
\* timedelta(days=30)
TrendDays == 30

RECURSIVE SumOf(_, _)
\* Sum of column f over rows (no row has NULL in f).
SumOf(rows, f) ==
  IF rows = {} THEN 0
  ELSE LET r == CHOOSE x \in rows : TRUE
       IN  r[f][1] + SumOf(rows \ {r}, f)

\* func.count(JournalEntry.id)
count(rows) == Cardinality(rows)

\* func.avg(column): NULL over no rows, else the mean as sum / count.
avg(rows, f) ==
  IF rows = {} THEN None
  ELSE Some([sum |-> SumOf(rows, f), n |-> Cardinality(rows)])

\* Variant: the hundredths cut off instead of rounded.
round2_truncating(a) == (100 * a.sum) \div a.n
\* round(float(x), 2), in hundredths: the nearest hundredth, a tie going to
\* the even one.
round2(a) ==
  LET q == (100 * a.sum) \div a.n
      r == (100 * a.sum) % a.n
  IN  IF 2 * r < a.n THEN q
      ELSE IF 2 * r > a.n THEN q + 1
      ELSE IF q % 2 = 0 THEN q ELSE q + 1

\* round(float(avg), 2) if avg else None: None and 0 are falsy.
rounded_or_none(a) ==
  IF a = None \/ a[1].sum = 0 THEN None ELSE Some(round2(a[1]))

\* str(row.entry_date): ISO format, year, month and day of the month.
str_date(d) == <<2024, MonthOf(d), d - DaysBefore(MonthOf(d))>>

\* Variant: the selection without the user_id condition.
of_user_any(s, user_id) == Rows(s)
\* WHERE user_id = :user_id
of_user(s, user_id) == {r \in Rows(s) : r.user_id = user_id}

\* Variant: the selection also bounded above by the current date.
since_until_today(s, user_id, start, current_date) ==
  {r \in of_user(s, user_id) :
     r.entry_date[1] >= start /\ r.entry_date[1] <= current_date}
\* WHERE user_id = :user_id AND entry_date >= :start (the current date is no
\* part of the condition).
since(s, user_id, start, current_date) ==
  {r \in of_user(s, user_id) : r.entry_date[1] >= start}

\* ... AND column IS NOT NULL
not_null(rows, f) == {r \in rows : r[f] # None}

\* The dates of rows in ascending order.
order_by_entry_date(rows) ==
  LET ds == {r.entry_date[1] : r \in rows}
  IN  CHOOSE q \in [1..Cardinality(ds) -> ds] :
        \A i, j \in 1..Cardinality(ds) : i < j => q[i] < q[j]

\* Variant: every point carries the mean over all selected rows.
mood_trend_of_ungrouped_mean(rows) ==
  LET ds == order_by_entry_date(rows)
  IN  [k \in 1..Len(ds) |->
         [date |-> str_date(ds[k]), mood |-> avg(rows, "mood_rating")[1]]]
\* GROUP BY entry_date ORDER BY entry_date, one mood_trend point per row.
mood_trend_of(rows) ==
  LET ds == order_by_entry_date(rows)
  IN  [k \in 1..Len(ds) |->
         [date |-> str_date(ds[k]),
          mood |-> avg({r \in rows : r.entry_date[1] = ds[k]},
                       "mood_rating")[1]]]

(* ------------------------------ requests ------------------------------ *)
\* The last request and its response; follows_create tells that the request
\* before it was the create_entry that returned this (user_id, entry_id).
Reply(op, user_id, entry_id, args, status, result) ==
  [op |-> op, user_id |-> user_id, entry_id |-> entry_id, args |-> args,
   status |-> status, result |-> result,
   follows_create |-> /\ op = "get"
                      /\ last.op = "create"
                      /\ last.user_id = user_id
                      /\ last.entry_id = entry_id]

(* ----------------------------- operations ----------------------------- *)
create_entry(user_id, entry_data) ==
  /\ LET db_entry == new_entry(nextId, user_id, entry_data, DbNow(clock))
     IN  /\ store' = [i \in DOMAIN store \cup {nextId} |->
                        IF i = nextId THEN db_entry ELSE store[i]]
         /\ last' = Reply("create", user_id, nextId, entry_data, "ok",
                          Some(db_entry))
  /\ nextId' = nextId + 1
  /\ UNCHANGED <<clock, sessions>>

get_entry(user_id, entry_id) ==
  /\ last' = Reply("get", user_id, entry_id, None, "ok",
                   select_entry(store, user_id, entry_id))
  /\ UNCHANGED <<store, clock, nextId, sessions>>

update_entry(user_id, entry_id, update_dict) ==
  LET found == select_entry(store, user_id, entry_id) IN
  /\ IF found = None
       THEN /\ last' = Reply("update", user_id, entry_id, update_dict, "ok",
                             None)
            /\ UNCHANGED store
       ELSE LET entry == apply_update(found[1], update_dict, utcnow(clock))
            IN  IF NotNullOk(entry)
                  THEN /\ store' = [store EXCEPT ![entry_id] = entry]
                       /\ last' = Reply("update", user_id, entry_id,
                                        update_dict, "ok", Some(entry))
                  ELSE \* commit raises IntegrityError; the session rolls back
                       /\ last' = Reply("update", user_id, entry_id,
                                        update_dict, "error", None)
                       /\ UNCHANGED store
  /\ UNCHANGED <<clock, nextId, sessions>>

\* Variant: the row is marked for deletion but the deletion never reaches the
\* table.
delete_entry_keeps_row(user_id, entry_id) ==
  LET found == select_entry(store, user_id, entry_id) IN
  /\ last' = Reply("delete", user_id, entry_id, None, "ok", found # None)
  /\ UNCHANGED <<store, clock, nextId, sessions>>

\* Variant: a lookup that finds nothing raises (scalar_one).
delete_entry_missing_raises(user_id, entry_id) ==
  LET found == select_entry(store, user_id, entry_id) IN
  /\ IF found = None
       THEN /\ last' = Reply("delete", user_id, entry_id, None, "error", FALSE)
            /\ UNCHANGED store
       ELSE /\ store' = [i \in DOMAIN store \ {entry_id} |-> store[i]]
            /\ last' = Reply("delete", user_id, entry_id, None, "ok", TRUE)
  /\ UNCHANGED <<clock, nextId, sessions>>

delete_entry(user_id, entry_id) ==
  LET found == select_entry(store, user_id, entry_id) IN
  /\ IF found = None
       THEN /\ last' = Reply("delete", user_id, entry_id, None, "ok", FALSE)
            /\ UNCHANGED store
       ELSE /\ store' = [i \in DOMAIN store \ {entry_id} |-> store[i]]
            /\ last' = Reply("delete", user_id, entry_id, None, "ok", TRUE)
  /\ UNCHANGED <<clock, nextId, sessions>>

get_user_entries(user_id, skip, limit, from_date, to_date, tags) ==
  /\ \E q \in order_by_desc_entry_date(
                where(store, user_id, from_date, to_date, tags)) :
        last' = Reply("list", user_id, 0,
                      [skip |-> skip, limit |-> limit, from_date |-> from_date,
                       to_date |-> to_date, tags |-> tags],
                      "ok", offset_limit(q, skip, limit))
  /\ UNCHANGED <<store, clock, nextId, sessions>>

get_user_stats(user_id) ==
  LET current_date == date_of(utcnow(clock))
      month_start == replace_day_1(current_date)
      month_rows == since(store, user_id, month_start, current_date)
      total_entries == count(of_user(store, user_id))
      entries_this_month == count(month_rows)
      avg_mood == avg(not_null(month_rows, "mood_rating"), "mood_rating")
      avg_energy == avg(not_null(month_rows, "energy_level"), "energy_level")
      thirty_days_ago == current_date - TrendDays
      mood_trend == mood_trend_of(
                      not_null(since(store, user_id, thirty_days_ago,
                                     current_date), "mood_rating"))
  IN
  /\ last' = Reply("stats", user_id, 0, None, "ok",
                   [total_entries |-> total_entries,
                    entries_this_month |-> entries_this_month,
                    average_mood_this_month |-> rounded_or_none(avg_mood),
                    average_energy_this_month |-> rounded_or_none(avg_energy),
                    most_used_tags |-> <<>>,
                    mood_trend |-> mood_trend])
  /\ UNCHANGED <<store, clock, nextId, sessions>>

\* Time passes between two requests.
Tick ==
  /\ clock % TicksPerDay < MaxTicks
  /\ clock' = clock + 1
  /\ UNCHANGED <<store, nextId, last, sessions>>

(* ------------------- create / update / delete / get ------------------- *)
Today == 75   \* 2024-03-15

CrudCreateInputs ==
  { [title |-> Some("t1"), content |-> Some("c1"), entry_date |-> Some(Today),
     mood_rating |-> None, energy_level |-> None, tags |-> None],
    [title |-> Some("t1"), content |-> Some("c1"), entry_date |-> Some(Today),
     mood_rating |-> Some(1), energy_level |-> None, tags |-> Some(<<"a">>)] }

CrudUpdateInputs ==
  { <<>>,
    [mood_rating |-> Some(1)],
    [title |-> Some("t2"), content |-> Some("c2"),
     entry_date |-> Some(Today - 1)] }

\* No request has been served yet.
\* No request is in progress.
NoSessions == <<>>

NoReply == [op |-> "init", user_id |-> "A", entry_id |-> 0, args |-> None,
            status |-> "ok", result |-> None, follows_create |-> FALSE]

Init ==
  /\ store = <<>>
  /\ clock = Today * TicksPerDay
  /\ nextId = 1
  /\ last = NoReply
  /\ sessions = NoSessions

Next ==
  \/ \E u \in Users, d \in CrudCreateInputs :
        nextId <= MaxEntries /\ create_entry(u, d)
  \/ \E u \in Users, i \in IdArgs : get_entry(u, i)
  \/ \E u \in Users, i \in IdArgs, d \in CrudUpdateInputs : update_entry(u, i, d)
  \/ \E u \in Users, i \in IdArgs : delete_entry(u, i)

\* All requests are served at one reading of the clock.
Spec == Init /\ [][Next]_vars

(* ------------------ create and update as time passes ------------------ *)
\* The last one sets a NOT NULL column to None: its commit fails.
ClockUpdateInputs ==
  { <<>>, [mood_rating |-> Some(1)], [mood_rating |-> Some(2)],
    [title |-> None] }

NextClock ==
  \/ \E u \in Users, d \in CrudCreateInputs :
        nextId <= MaxClockEntries /\ create_entry(u, d)
  \/ \E u \in Users, i \in 1..MaxClockEntries, d \in ClockUpdateInputs :
        update_entry(u, i, d)
  \/ Tick

SpecClock == Init /\ [][NextClock]_vars

(* ------------------------------ listing ------------------------------- *)
MaxListEntries == 3
MaxSkip == 2
MaxLimit == 2

\* skip: int = 0, limit: int = 100
DefaultSkip == 0
DefaultLimit == 100

ListCreateInputs ==
  { [title |-> Some("t1"), content |-> Some("c1"), entry_date |-> Some(x[1]),
     mood_rating |-> None, energy_level |-> None, tags |-> x[2]] :
      x \in { <<Today, None>>, <<Today, Some(<<"a", "b">>)>>,
              <<Today - 1, Some(<<"b">>)>> } }

\* The creates of SpecList: user A creates every input, user B one of them.
ListCreates ==
  {c \in Users \X ListCreateInputs : c[1] = "B" => c[2].tags = Some(<<"a", "b">>)}

ListArg(skip, limit, from_date, to_date, tags) ==
  [skip |-> skip, limit |-> limit, from_date |-> from_date,
   to_date |-> to_date, tags |-> tags]

DateArgs == {None, Some(Today - 1), Some(Today)}

TagArgs == { Some(<<>>), Some(<<"b">>), Some(<<"A">>), Some(<<"_">>) }

ListArgs ==
  {ListArg(DefaultSkip, DefaultLimit, f, t, None) : f \in DateArgs, t \in DateArgs}
  \cup {ListArg(sk, li, None, None, None) : sk \in 0..MaxSkip, li \in {1, MaxLimit}}
  \cup {ListArg(1, 1, Some(Today - 1), Some(Today), None)}
  \cup {ListArg(DefaultSkip, DefaultLimit, None, None, t) : t \in TagArgs}

NextList ==
  \/ \E c \in ListCreates :
        nextId <= MaxListEntries /\ create_entry(c[1], c[2])
  \/ \E u \in Users, a \in ListArgs :
        get_user_entries(u, a.skip, a.limit, a.from_date, a.to_date, a.tags)

SpecList == Init /\ [][NextList]_vars

(* ----------------------------- statistics ----------------------------- *)
MaxStatsEntries == 3

\* Current dates: 2024-03-01, 2024-03-15 and 2024-03-31.
StatsDays == {61, Today, 91}

\* Entry dates 2024-02-13, 2024-02-14, 2024-03-01, 2024-03-15, 2024-03-16.
StatsCreateInputs ==
  { [title |-> Some("t1"), content |-> Some("c1"), entry_date |-> Some(x[1]),
     mood_rating |-> x[2], energy_level |-> x[3], tags |-> None] :
      x \in { <<Today - 31, Some(2), None>>,
              <<Today - 30, Some(1), Some(3)>>,
              <<61, None, Some(3)>>,
              <<Today, Some(1), Some(4)>>,
              <<Today + 1, Some(2), None>> } }

InitStats ==
  /\ store = <<>>
  /\ clock \in {d * TicksPerDay : d \in StatsDays}
  /\ nextId = 1
  /\ last = NoReply
  /\ sessions = NoSessions

\* The creates of SpecStats: user A creates every input, user B one of them.
StatsCreates ==
  {c \in Users \X StatsCreateInputs :
     c[1] = "B" => c[2].entry_date = Some(Today)}

NextStats ==
  \/ \E c \in StatsCreates :
        nextId <= MaxStatsEntries /\ create_entry(c[1], c[2])
  \/ \E u \in Users : get_user_stats(u)

SpecStats == InitStats /\ [][NextStats]_vars

(* ====================================================================== *)
(* Ownership, create/get round trip, partial update, updated_at           *)
(* ====================================================================== *)

\* The request recorded in r addressed an entry that request's user does not
\* own, or an id no entry has (s is the store the request ran against).
NotOwnedOrMissing(s, r) ==
  \/ r.entry_id \notin DOMAIN s
  \/ s[r.entry_id].user_id # r.user_id

\* The step serves a request (Tick is the only step that moves the clock), so
\* last' is that request and its response.
IsRequest == clock' = clock

\* C1: get_entry, update_entry and delete_entry called by a user on an entry
\* of another user answer exactly as for an id no entry has (None, None,
\* False) and leave the whole store, that entry included, unchanged.
C1_WrongOwnerAsMissing ==
  [][ (/\ IsRequest
       /\ last'.op \in {"get", "update", "delete"}
       /\ NotOwnedOrMissing(store, last'))
      => /\ store' = store
         /\ last'.status = "ok"
         /\ IF last'.op = "delete" THEN last'.result = FALSE
                                   ELSE last'.result = None ]_vars

W_C1 ==
  /\ last.op \in {"update", "delete"}
  /\ Cardinality(DOMAIN store) >= 2
  /\ last.entry_id \in DOMAIN store
  /\ store[last.entry_id].user_id # last.user_id

\* C2: create_entry returns an entry owned by the creating user that carries
\* the supplied field values, and a get_entry by the same user for the
\* returned id issued next returns an entry equal to it.
C2_CreateThenGet ==
  [][ /\ (IsRequest /\ last'.op = "create")
         => /\ last'.status = "ok"
            /\ last'.result # None
            /\ last'.result[1].user_id = last'.user_id
            /\ \A f \in DataFields : last'.result[1][f] = last'.args[f]
      /\ (IsRequest /\ last'.op = "get" /\ last'.follows_create)
         => last'.result = last.result ]_vars

W_C2 ==
  /\ last.op = "get"
  /\ last.follows_create
  /\ last.result # None
  /\ last.result[1].mood_rating = Some(1)

\* The step is an update_entry that found its entry and committed.
UpdateSucceeds == /\ IsRequest
                  /\ last'.op = "update"
                  /\ last'.status = "ok"
                  /\ last'.result # None

\* C3: a successful update_entry leaves every data field that is absent from
\* the request at its stored value, never changes id, user_id or created_at,
\* and touches no other entry.
C3_PartialUpdateFrame ==
  [][ UpdateSucceeds
      => LET i == last'.entry_id IN
         /\ DOMAIN store' = DOMAIN store
         /\ \A j \in DOMAIN store \ {i} : store'[j] = store[j]
         /\ \A f \in DataFields \ DOMAIN last'.args : store'[i][f] = store[i][f]
         /\ \A f \in DOMAIN last'.args : store'[i][f] = last'.args[f]
         /\ store'[i].id = store[i].id
         /\ store'[i].user_id = store[i].user_id
         /\ store'[i].created_at = store[i].created_at
         /\ last'.result = Some(store'[i]) ]_vars

W_C3 ==
  /\ last.op = "update"
  /\ last.result # None
  /\ DOMAIN last.args = {"mood_rating"}
  /\ last.result[1].title = Some("t2")
  /\ last.result[1].tags = Some(<<"a">>)

\* C4: every successful update_entry, an empty one included, sets updated_at
\* to the time of the update, which is not before the prior updated_at; the
\* updated_at of an entry never decreases, and it starts equal to created_at.
C4_UpdatedAtMonotone ==
  [][ /\ UpdateSucceeds
         => /\ store'[last'.entry_id].updated_at = utcnow(clock)
            /\ store'[last'.entry_id].updated_at
                 >= store[last'.entry_id].updated_at
      /\ \A i \in DOMAIN store \cap DOMAIN store' :
            store'[i].updated_at >= store[i].updated_at
      /\ \A i \in DOMAIN store' \ DOMAIN store :
            store'[i].updated_at = store'[i].created_at ]_vars

W_C4 ==
  /\ last.op = "update"
  /\ last.result # None
  /\ last.args = <<>>
  /\ last.result[1].created_at < clock
  /\ last.result[1].updated_at > last.result[1].created_at

(* ====================================================================== *)
(* Listing: date range, pagination, tag filter                            *)
(* ====================================================================== *)

\* The list request a was made with the default skip and limit.
Unpaginated(a) == a.skip = DefaultSkip /\ a.limit = DefaultLimit

InDateRange(e, a) ==
  /\ (a.from_date # None => a.from_date[1] <= e.entry_date[1])
  /\ (a.to_date # None => e.entry_date[1] <= a.to_date[1])

SeqRange(q) == {q[k] : k \in 1..Len(q)}

\* C5: get_user_entries returns only entries of the requesting user whose
\* entry_date lies within the supplied bounds, both inclusive (an absent bound
\* does not restrict), in descending entry_date order; without pagination
\* and tag filter it returns every such entry.
C5_DateRangeDescending ==
  last.op = "list"
  => LET a == last.args
         r == last.result
     IN  /\ \A k \in 1..Len(r) :
               /\ r[k] \in Rows(store)
               /\ r[k].user_id = last.user_id
               /\ InDateRange(r[k], a)
         /\ \A k \in 1..(Len(r) - 1) :
               r[k].entry_date[1] >= r[k + 1].entry_date[1]
         /\ (Unpaginated(a) /\ a.tags = None)
            => SeqRange(r) = {e \in Rows(store) :
                                e.user_id = last.user_id /\ InDateRange(e, a)}

W_C5 ==
  /\ last.op = "list"
  /\ last.args.from_date = Some(Today - 1)
  /\ last.args.to_date = Some(Today - 1)
  /\ Len(last.result) = 1
  /\ \E e \in Rows(store) :
        e.user_id = last.user_id /\ e.entry_date = Some(Today)

\* C6: for skip S >= 0 and limit L >= 1, get_user_entries returns at most L
\* entries, and they are positions S .. S+L-1 of the result the same request
\* gives without pagination over the same data.
C6_PageIsSliceOfFull ==
  [][ (/\ IsRequest
       /\ last.op = "list" /\ last'.op = "list"
       /\ store' = store
       /\ last'.user_id = last.user_id
       /\ Unpaginated(last.args)
       /\ last'.args.from_date = last.args.from_date
       /\ last'.args.to_date = last.args.to_date
       /\ last'.args.tags = last.args.tags
       /\ last'.args.skip >= 0 /\ last'.args.limit >= 1)
      => /\ Len(last'.result) <= last'.args.limit
         /\ last'.result
              = SubSeq(last.result, last'.args.skip + 1,
                       Min(Len(last.result),
                           last'.args.skip + last'.args.limit)) ]_vars

\* t occurs in s as a run of consecutive characters.
Contains(s, t) ==
  \E i \in 0..(Len(s) - Len(t)) : SubSeq(s, i + 1, i + Len(t)) = t

\* C7: with a tag filter t, the entries that pass are exactly the user's
\* entries whose tags contain t as a literal contiguous substring, for every
\* t; an entry with null tags does not pass.
C7_TagFilterLiteralSubstring ==
  (/\ last.op = "list"
   /\ last.args.tags # None
   /\ Unpaginated(last.args)
   /\ last.args.from_date = None /\ last.args.to_date = None)
  => SeqRange(last.result)
       = {e \in Rows(store) : /\ e.user_id = last.user_id
                              /\ e.tags # None
                              /\ Contains(e.tags[1], last.args.tags[1])}

(* ====================================================================== *)
(* Statistics: counts, monthly averages, trend window                     *)
(* ====================================================================== *)

\* The current date of the state.
AsOf == clock \div TicksPerDay

\* The first day of the calendar month that contains date d.
FirstOfMonth(d) ==
  CHOOSE m \in 1..LastDay :
    /\ MonthOf(m) = MonthOf(d)
    /\ (m = 1 \/ MonthOf(m - 1) # MonthOf(d))

\* The entries of the user of the last request.
Mine == {e \in Rows(store) : e.user_id = last.user_id}

\* C8: total_entries is the number of entries of the user, and
\* entries_this_month the number of them dated on or after the first day of
\* the current month, future dates included; both are 0 without entries.
C8_Counts ==
  last.op = "stats"
  => /\ last.result.total_entries = Cardinality(Mine)
     /\ last.result.entries_this_month
          = Cardinality({e \in Mine : e.entry_date[1] >= FirstOfMonth(AsOf)})
     /\ Mine = {} => /\ last.result.total_entries = 0
                     /\ last.result.entries_this_month = 0

W_C8 ==
  /\ last.op = "stats"
  /\ \E e \in Mine : e.entry_date[1] > AsOf
  /\ \E e \in Mine : e.entry_date[1] < FirstOfMonth(AsOf)
  /\ \E e \in Rows(store) : e \notin Mine
  /\ last.result.entries_this_month >= 1
  /\ last.result.total_entries > last.result.entries_this_month

\* The entries of the user that count for this month's average of field f.
Qualifying(f) ==
  {e \in Mine : e.entry_date[1] >= FirstOfMonth(AsOf) /\ e[f] # None}

\* The reported average x (in hundredths) is null exactly without
\* qualifying entries and is never 0.
NullIffNoData(x, f) ==
  /\ x = None <=> Qualifying(f) = {}
  /\ x # Some(0)

\* C9 as stated: the monthly averages are null exactly when no entry
\* qualifies, never 0 and never an error, and otherwise equal the arithmetic
\* mean of the field over the qualifying entries.
C9_AverageIsExactMean ==
  last.op = "stats"
  => /\ last.status = "ok"
     /\ \A p \in { <<"average_mood_this_month", "mood_rating">>,
                   <<"average_energy_this_month", "energy_level">> } :
           LET x == last.result[p[1]]
               Q == Qualifying(p[2])
           IN  /\ NullIffNoData(x, p[2])
               /\ x # None
                  => x[1] * Cardinality(Q) = 100 * SumOf(Q, p[2])

\* C9 amended: ... and otherwise equal the arithmetic mean of the field over
\* the qualifying entries rounded to 2 decimal places (the hundredth nearest
\* to the mean).
C9_AverageIsRoundedMean ==
  last.op = "stats"
  => /\ last.status = "ok"
     /\ \A p \in { <<"average_mood_this_month", "mood_rating">>,
                   <<"average_energy_this_month", "energy_level">> } :
           LET x == last.result[p[1]]
               Q == Qualifying(p[2])
               d == 100 * SumOf(Q, p[2]) - x[1] * Cardinality(Q)
           IN  /\ NullIffNoData(x, p[2])
               /\ x # None
                  => /\ 2 * d <= Cardinality(Q)
                     /\ -2 * d <= Cardinality(Q)

W_C9 ==
  /\ last.op = "stats"
  /\ Cardinality(Qualifying("mood_rating")) = 3
  /\ last.result.average_mood_this_month = Some(167)
  /\ last.result.average_energy_this_month = Some(400)

\* Dates in ISO format compare as (year, month, day).
IsoLeq(a, b) ==
  \/ a[1] < b[1]
  \/ a[1] = b[1] /\ a[2] < b[2]
  \/ a[1] = b[1] /\ a[2] = b[2] /\ a[3] <= b[3]

\* C10: every point of mood_trend has a date d with
\* as_of - 30 days <= d <= as_of, as_of being the current date.
C10_TrendWithinWindow ==
  last.op = "stats"
  => \A k \in 1..Len(last.result.mood_trend) :
        /\ IsoLeq(str_date(AsOf - TrendDays), last.result.mood_trend[k].date)
        /\ IsoLeq(last.result.mood_trend[k].date, str_date(AsOf))

(* ====================================================================== *)
(* Statistics: the points of mood_trend                                   *)
(* ====================================================================== *)
MaxTrendEntries == 3

\* Entry dates 2024-02-13, 2024-02-14, 2024-03-15 (three inputs) and
\* 2024-03-16.
TrendCreateInputs ==
  { [title |-> Some("t1"), content |-> Some("c1"), entry_date |-> Some(x[1]),
     mood_rating |-> x[2], energy_level |-> None, tags |-> None] :
      x \in { <<Today - 31, Some(2)>>, <<Today - 30, Some(1)>>,
              <<Today, Some(1)>>, <<Today, Some(2)>>, <<Today, None>>,
              <<Today + 1, Some(2)>> } }

\* The creates of SpecTrend: user A creates every input, user B one of them.
TrendCreates ==
  {c \in Users \X TrendCreateInputs :
     c[1] = "B" => c[2].mood_rating = Some(2) /\ c[2].entry_date = Some(Today)}

NextTrend ==
  \/ \E c \in TrendCreates :
        nextId <= MaxTrendEntries /\ create_entry(c[1], c[2])
  \/ \E u \in Users : get_user_stats(u)

SpecTrend == Init /\ [][NextTrend]_vars

\* The entries of the user that the trend query selects on date d.
TrendSelected(d) ==
  {e \in Mine : /\ e.entry_date[1] >= AsOf - TrendDays
                /\ e.mood_rating # None
                /\ e.entry_date[1] = d}

TrendDates == {e.entry_date[1] : e \in {x \in Mine : TrendSelected(x.entry_date[1]) # {}}}

\* C11: mood_trend has exactly one point for each entry_date the trend query
\* selects on which the user has an entry with non-null mood_rating, its
\* value the mean mood_rating of those entries; no other date has a point,
\* the dates are strictly ascending, and the list is empty without entries.
C11_TrendPoints ==
  last.op = "stats"
  => LET t == last.result.mood_trend IN
     /\ {t[k].date : k \in 1..Len(t)} = {str_date(d) : d \in TrendDates}
     /\ Len(t) = Cardinality(TrendDates)
     /\ \A k \in 1..(Len(t) - 1) :
           IsoLeq(t[k].date, t[k + 1].date) /\ t[k].date # t[k + 1].date
     /\ \A k \in 1..Len(t) : \A d \in TrendDates :
           t[k].date = str_date(d)
           => t[k].mood.sum * Cardinality(TrendSelected(d))
                = SumOf(TrendSelected(d), "mood_rating") * t[k].mood.n
     /\ Mine = {} => t = <<>>

W_C11 ==
  /\ last.op = "stats"
  /\ Len(last.result.mood_trend) = 2
  /\ last.result.mood_trend[1].mood = [sum |-> 3, n |-> 2]
  /\ last.result.mood_trend[2].date = str_date(Today + 1)

(* ====================================================================== *)
(* Deletion and not-found                                                 *)
(* ====================================================================== *)
MaxLifeEntries == 2

LifeCreateInput(u) ==
  [title |-> Some("t1"), content |-> Some("c1"), entry_date |-> Some(Today),
   mood_rating |-> Some(IF u = "A" THEN 1 ELSE 2), energy_level |-> None,
   tags |-> None]

LifeUpdateInput == [title |-> Some("t2")]

\* Every operation of the service on one kind of entry.
NextLife ==
  \/ \E u \in Users : nextId <= MaxLifeEntries /\ create_entry(u, LifeCreateInput(u))
  \/ \E u \in Users, i \in 1..(MaxLifeEntries + 1) : get_entry(u, i)
  \/ \E u \in Users, i \in 1..(MaxLifeEntries + 1) :
        update_entry(u, i, LifeUpdateInput)
  \/ \E u \in Users, i \in 1..(MaxLifeEntries + 1) : delete_entry(u, i)
  \/ \E u \in Users :
        get_user_entries(u, DefaultSkip, DefaultLimit, None, None, None)
  \/ \E u \in Users : get_user_stats(u)

SpecLife == Init /\ [][NextLife]_vars

\* The ids of the entries that were created and deleted (ids are handed out
\* in sequence and nextId is the next one).
Deleted(s, n) == (1..(n - 1)) \ DOMAIN s

\* C12: once delete_entry has returned True the entry is gone: no step brings
\* it back, a later get_entry, update_entry or delete_entry on its id answers
\* not-found and changes nothing, and it is in no get_user_entries result and
\* in no get_user_stats count.
C12_DeleteIsFinal ==
  [][ /\ (IsRequest /\ last'.op = "delete" /\ last' # last
            /\ last'.result = TRUE)
         => /\ last'.entry_id \in DOMAIN store
            /\ last'.entry_id \in Deleted(store', nextId')
      /\ \A i \in Deleted(store, nextId) : i \in Deleted(store', nextId')
      /\ (/\ IsRequest
          /\ last'.op \in {"get", "update", "delete"}
          /\ last'.entry_id \in Deleted(store, nextId))
         => /\ store' = store
            /\ IF last'.op = "delete" THEN last'.result = FALSE
                                      ELSE last'.result = None
      /\ (IsRequest /\ last'.op = "list")
         => \A k \in 1..Len(last'.result) :
               /\ last'.result[k].id \notin Deleted(store, nextId)
               /\ last'.result[k] \in Rows(store)
      /\ (IsRequest /\ last'.op = "stats")
         => last'.result.total_entries
              = Cardinality({e \in Rows(store) : e.user_id = last'.user_id})
    ]_vars

W_C12 ==
  /\ last.op \in {"get", "update"}
  /\ last.entry_id \in Deleted(store, nextId)
  /\ last.result = None
  /\ store # <<>>

\* C13: update_entry and delete_entry on an entry that does not exist or is
\* not the caller's return None and False as ordinary values, no error, and
\* leave every entry, its fields and its updated_at as they were.
C13_NotFoundIsNoError ==
  [][ (/\ IsRequest
       /\ last'.op \in {"update", "delete"}
       /\ NotOwnedOrMissing(store, last'))
      => /\ last'.status # "error"
         /\ (last'.op = "update" => last'.result = None)
         /\ (last'.op = "delete" => last'.result = FALSE)
         /\ DOMAIN store' = DOMAIN store
         /\ \A i \in DOMAIN store : \A f \in DOMAIN store[i] :
               store'[i][f] = store[i][f]
    ]_vars

W_C13 ==
  /\ last.op = "delete"
  /\ last.result = FALSE
  /\ last.status = "ok"
  /\ last.entry_id \notin DOMAIN store
  /\ last.entry_id \notin Deleted(store, nextId)
  /\ store # <<>>

(* ====================================================================== *)
(* HTTP boundary                                                          *)
(* ====================================================================== *)
MaxHttpEntries == 2

\* Field(..., max_length=255), Field(None, max_length=500), ge=1, le=10
MaxTitleLen == 255
MaxTagsLen == 500
MinRating == 1
MaxRating == 10
\* Query(100, ge=1, le=1000)
MinPageLimit == 1
MaxPageLimit == 1000

RequiredFields == {"title", "content", "entry_date"}

\* The constraints of one field on a value that is not null.
FieldOk(f, v) ==
  CASE f = "title" -> Len(v) >= 1 /\ Len(v) <= MaxTitleLen
    [] f = "content" -> Len(v) >= 1
    [] f = "entry_date" -> TRUE
    [] f \in {"mood_rating", "energy_level"} -> v >= MinRating /\ v <= MaxRating
    [] f = "tags" -> Len(v) <= MaxTagsLen

\* Request-body validation of POST /entries: required fields are `str`/`date`
\* (null is not accepted), optional fields accept null.
JournalEntryCreate(body) ==
  \A f \in DataFields :
     IF body[f] = None THEN f \notin RequiredFields ELSE FieldOk(f, body[f][1])

\* Request-body validation of PUT /entries/{id}: every field is Optional, so
\* null is accepted for each; a non-null value meets the field's constraints.
JournalEntryUpdate(body) ==
  \A f \in DOMAIN body : body[f] = None \/ FieldOk(f, body[f][1])

\* A path segment: <<"canonical", i>> is str(uuid) of id i as the store holds
\* it, <<"upper", i>> the same UUID in capitals (parses, but is another
\* string), <<"junk", 0>> a string uuid.UUID() refuses.
PathIds ==
  ({"canonical"} \X (1..(MaxHttpEntries + 1))) \cup {<<"upper", 1>>, <<"junk", 0>>}

\* Variant: every path segment is let through.
validate_uuid_accepts_all(uuid_str) == TRUE

\* uuid.UUID(uuid_str) succeeds.
validate_uuid(uuid_str) == uuid_str[1] \in {"canonical", "upper"}

\* The id whose stored string equals the path segment (0: none does).
id_equal_to(uuid_str) == IF uuid_str[1] = "canonical" THEN uuid_str[2] ELSE 0

\* Variant: limit is only checked against ge=1.
page_query_ok_no_upper(skip, limit) == skip >= 0 /\ limit >= MinPageLimit

\* Query(0, ge=0), Query(100, ge=1, le=1000)
page_query_ok(skip, limit) ==
  skip >= 0 /\ limit >= MinPageLimit /\ limit <= MaxPageLimit

\* The request is refused before the handler's service call.
Reject(op, user_id, uuid_str, args, code) ==
  /\ last' = Reply(op, user_id, 0, [path |-> uuid_str, body |-> args], code,
                   None)
  /\ UNCHANGED <<store, clock, nextId, sessions>>

\* The response code the handler derives from the service's answer.
status_code(r) ==
  CASE r.status \in {"400", "422"} -> r.status
    [] r.status = "error" -> "500"
    [] r.op = "create" -> "201"
    [] r.op \in {"get", "update"} -> IF r.result = None THEN "404" ELSE "200"
    [] r.op = "delete" -> IF r.result THEN "204" ELSE "404"
    [] OTHER -> "200"

create_journal_entry(user_id, body) ==
  IF ~JournalEntryCreate(body)
    THEN Reject("create", user_id, <<"none", 0>>, body, "422")
    ELSE create_entry(user_id, body)

get_journal_entry(user_id, uuid_str) ==
  IF ~validate_uuid(uuid_str)
    THEN Reject("get", user_id, uuid_str, None, "400")
    ELSE get_entry(user_id, id_equal_to(uuid_str))

update_journal_entry(user_id, uuid_str, body) ==
  IF ~JournalEntryUpdate(body)
    THEN Reject("update", user_id, uuid_str, body, "422")
    ELSE IF ~validate_uuid(uuid_str)
           THEN Reject("update", user_id, uuid_str, body, "400")
           ELSE update_entry(user_id, id_equal_to(uuid_str), body)

delete_journal_entry(user_id, uuid_str) ==
  IF ~validate_uuid(uuid_str)
    THEN Reject("delete", user_id, uuid_str, None, "400")
    ELSE delete_entry(user_id, id_equal_to(uuid_str))

get_journal_entries(user_id, skip, limit) ==
  IF ~page_query_ok(skip, limit)
    THEN Reject("list", user_id, <<"none", 0>>,
                [skip |-> skip, limit |-> limit], "422")
    ELSE get_user_entries(user_id, skip, limit, None, None, None)

HttpBody(title, mood_rating, tags) ==
  [title |-> title, content |-> Some("c1"), entry_date |-> Some(Today),
   mood_rating |-> mood_rating, energy_level |-> None, tags |-> tags]

HttpCreateBodies ==
  { HttpBody(Some("t1"), Some(MinRating), None),
    HttpBody(None, None, None),
    HttpBody(Some(""), None, None),
    HttpBody(Some("t1"), Some(MinRating - 1), None),
    HttpBody(Some("t1"), Some(MaxRating + 1), None),
    HttpBody(Some("t1"), None, Some([k \in 1..(MaxTagsLen + 1) |-> "a"])) }

HttpUpdateBodies ==
  { [title |-> Some("t2")], [title |-> None], [title |-> Some("")],
    [mood_rating |-> None], [mood_rating |-> Some(MaxRating + 1)],
    [entry_date |-> None] }

HttpPages ==
  { <<DefaultSkip, DefaultLimit>>, <<0, 1>>, <<1, MaxPageLimit>>, <<-1, 1>>,
    <<0, 0>>, <<0, -1>>, <<0, MaxPageLimit + 1>> }

NextHttp ==
  \/ \E b \in HttpCreateBodies :
        nextId <= MaxHttpEntries /\ create_journal_entry("A", b)
  \/ \E u \in Users, p \in PathIds : get_journal_entry(u, p)
  \/ \E p \in PathIds, b \in HttpUpdateBodies : update_journal_entry("A", p, b)
  \/ \E u \in Users, p \in PathIds : delete_journal_entry(u, p)

SpecHttp == Init /\ [][NextHttp]_vars

\* The list endpoint over entries of two users.
MaxPageEntries == 2

PageCreateBodies ==
  { HttpBody(Some("t1"), Some(MinRating), None),
    HttpBody(Some("t2"), None, None) }

NextPage ==
  \/ \E u \in Users, b \in PageCreateBodies :
        nextId <= MaxPageEntries /\ create_journal_entry(u, b)
  \/ \E u \in Users, pg \in HttpPages : get_journal_entries(u, pg[1], pg[2])

SpecPage == Init /\ [][NextPage]_vars

\* Create refuses this value for this field.
CreateRejects(f, v) ==
  IF v = None THEN f \in RequiredFields ELSE ~FieldOk(f, v[1])

StoredFieldsOk(s) ==
  \A i \in DOMAIN s :
     /\ s[i].title # None /\ Len(s[i].title[1]) >= 1
     /\ s[i].content # None /\ Len(s[i].content[1]) >= 1
     /\ s[i].entry_date # None

\* C14: an update request carrying, for some supplied field, a value that
\* create refuses for that field is answered as a validation failure (422)
\* and persists nothing, so every stored entry keeps a non-empty title, a
\* non-empty content and a non-null entry_date.
C14_UpdateValidatedLikeCreate ==
  [][ /\ \A u \in Users, p \in PathIds, b \in HttpUpdateBodies :
           (/\ update_journal_entry(u, p, b)
            /\ \E f \in DOMAIN b : CreateRejects(f, b[f]))
           => status_code(last') = "422" /\ store' = store
      /\ StoredFieldsOk(store')
    ]_vars

OutOfRange(skip, limit) ==
  skip < 0 \/ limit < MinPageLimit \/ limit > MaxPageLimit

\* C19: a list request with skip < 0 or limit outside 1..1000 is refused at
\* the boundary (422) before the service runs; every other list request is
\* served without error, and no list answer holds more than limit, hence
\* never more than 1000, entries.
C19_PageBoundsEnforced ==
  [][ \A u \in Users, pg \in HttpPages :
        get_journal_entries(u, pg[1], pg[2])
        => IF OutOfRange(pg[1], pg[2])
             THEN /\ status_code(last') = "422"
                  /\ last'.result = None
                  /\ store' = store
             ELSE /\ status_code(last') = "200"
                  /\ Len(last'.result) <= pg[2]
                  /\ Len(last'.result) <= MaxPageLimit
    ]_vars

W_C19 ==
  /\ last.op = "list"
  /\ last.status = "422"
  /\ last.args.body.limit = MaxPageLimit + 1
  /\ Cardinality(DOMAIN store) = MaxPageEntries

\* The store with only the entries of one user.
Restrict(s, u) == [i \in {j \in DOMAIN s : s[j].user_id = u} |-> s[i]]

\* C16: what get_entry, get_user_entries and get_user_stats return to a user
\* is what they return on the store holding that user's entries alone, only
\* the user's own entries are listed, and a create, update or delete issued
\* by another user leaves the user's entries, and so these results, as they
\* were.
C16_UserIsolation ==
  [][ IsRequest =>
      LET u == last'.user_id
          mine == Restrict(store', u)
          r == last'.result
      IN
      /\ last'.op = "get" => r = select_entry(mine, u, last'.entry_id)
      /\ last'.op = "list"
         => /\ \A k \in 1..Len(r) : r[k].user_id = u
            /\ \E q \in order_by_desc_entry_date(
                          where(mine, u, last'.args.from_date,
                                last'.args.to_date, last'.args.tags)) :
                  r = offset_limit(q, last'.args.skip, last'.args.limit)
      /\ last'.op = "stats"
         => LET today == clock' \div TicksPerDay
                month == {e \in Rows(mine) : e.entry_date[1] >= FirstOfMonth(today)}
                trend == {e \in Rows(mine) :
                            e.entry_date[1] >= today - TrendDays}
            IN  /\ r.total_entries = Cardinality(Rows(mine))
                /\ r.entries_this_month = Cardinality(month)
                /\ r.average_mood_this_month
                     = rounded_or_none(avg(not_null(month, "mood_rating"),
                                           "mood_rating"))
                /\ r.average_energy_this_month
                     = rounded_or_none(avg(not_null(month, "energy_level"),
                                           "energy_level"))
                /\ r.mood_trend
                     = mood_trend_of(not_null(trend, "mood_rating"))
      /\ last'.op \in {"create", "update", "delete"}
         => \A a \in Users \ {u} :
               /\ Restrict(store', a) = Restrict(store, a)
               /\ \A i \in 1..(MaxLifeEntries + 1) :
                     select_entry(store', a, i) = select_entry(store, a, i)
               /\ where(store', a, None, None, None)
                    = where(store, a, None, None, None)
    ]_vars

W_C16 ==
  /\ last.op = "stats"
  /\ last.user_id = "A"
  /\ last.result.total_entries = 1
  /\ last.result.average_mood_this_month = Some(100)
  /\ \E e \in Rows(store) : e.user_id = "B"

(* ====================================================================== *)
(* The month window and the trend window                                  *)
(* ====================================================================== *)
MaxWindowEntries == 2

WindowCreateInputs ==
  { [title |-> Some("t1"), content |-> Some("c1"), entry_date |-> Some(x[1]),
     mood_rating |-> x[2], energy_level |-> None, tags |-> None] :
      x \in { <<1, Some(1)>>, <<DaysBefore(2) + 1, Some(2)>>,
              <<DaysBefore(3) + 1, Some(1)>>, <<DaysBefore(3) + 1, None>> } }

\* The service may be asked on any day of the calendar.
InitWindow ==
  /\ store = <<>>
  /\ \E d \in 1..LastDay : clock = d * TicksPerDay
  /\ nextId = 1
  /\ last = NoReply
  /\ sessions = NoSessions

NextWindow ==
  \/ \E c \in WindowCreateInputs :
        nextId <= MaxWindowEntries /\ create_entry("A", c)
  \/ get_user_stats("A")

SpecWindow == InitWindow /\ [][NextWindow]_vars

MaxRaceEntries == 2

\* Each request works in a session of its own. An update awaits the store
\* three times (select, commit, refresh), a delete twice (select, commit);
\* between two awaits the other request may run.
IdleSession ==
  [pc |-> "idle", user_id |-> "A", entry_id |-> 0, update_dict |-> <<>>,
   now |-> 0]

RaceCreateInput ==
  [title |-> Some("t1"), content |-> Some("c1"), entry_date |-> Some(Today),
   mood_rating |-> None, energy_level |-> None, tags |-> None]

RaceUpdateInput == [title |-> Some("t2")]

InitRace ==
  /\ store = <<>>
  /\ clock = Today * TicksPerDay
  /\ nextId = 1
  /\ last = NoReply
  /\ sessions = [upd |-> IdleSession, del |-> IdleSession]

\* create_entry while other requests may be in progress.
race_create_entry(user_id, entry_data) ==
  /\ LET db_entry == new_entry(nextId, user_id, entry_data, DbNow(clock))
     IN  /\ store' = [i \in DOMAIN store \cup {nextId} |->
                        IF i = nextId THEN db_entry ELSE store[i]]
         /\ last' = Reply("create", user_id, nextId, entry_data, "ok",
                          Some(db_entry))
  /\ nextId' = nextId + 1
  /\ UNCHANGED <<clock, sessions>>

\* update_entry up to its commit: the lookup, the setattr loop and the
\* timestamp, all on the session's copy of the row.
update_entry_select(user_id, entry_id, update_dict) ==
  /\ sessions.upd.pc = "idle"
  /\ IF select_entry(store, user_id, entry_id) = None
       THEN /\ last' = Reply("update", user_id, entry_id, update_dict, "ok",
                             None)
            /\ UNCHANGED sessions
       ELSE /\ sessions' = [sessions EXCEPT !.upd =
                              [pc |-> "commit", user_id |-> user_id,
                               entry_id |-> entry_id,
                               update_dict |-> update_dict,
                               now |-> utcnow(clock)]]
            /\ UNCHANGED last
  /\ UNCHANGED <<store, clock, nextId>>

\* await self.db.commit(): the flush emits UPDATE ... WHERE id = :id; when
\* it matches no row the ORM raises StaleDataError.
update_entry_commit ==
  LET s == sessions.upd IN
  /\ s.pc = "commit"
  /\ IF s.entry_id \in DOMAIN store
       THEN /\ store' = [store EXCEPT ![s.entry_id] =
                           apply_update(store[s.entry_id], s.update_dict,
                                        s.now)]
            /\ sessions' = [sessions EXCEPT !.upd.pc = "refresh"]
            /\ UNCHANGED last
       ELSE /\ last' = Reply("update", s.user_id, s.entry_id, s.update_dict,
                             "error", None)
            /\ sessions' = [sessions EXCEPT !.upd = IdleSession]
            /\ UNCHANGED store
  /\ UNCHANGED <<clock, nextId>>

\* await self.db.refresh(entry): re-selects the row by primary key and
\* raises InvalidRequestError when it is gone.
update_entry_refresh ==
  LET s == sessions.upd IN
  /\ s.pc = "refresh"
  /\ last' = IF s.entry_id \in DOMAIN store
               THEN Reply("update", s.user_id, s.entry_id, s.update_dict,
                          "ok", Some(store[s.entry_id]))
               ELSE Reply("update", s.user_id, s.entry_id, s.update_dict,
                          "error", None)
  /\ sessions' = [sessions EXCEPT !.upd = IdleSession]
  /\ UNCHANGED <<store, clock, nextId>>

\* delete_entry up to its commit: the lookup and db.delete(entry).
delete_entry_select(user_id, entry_id) ==
  /\ sessions.del.pc = "idle"
  /\ IF select_entry(store, user_id, entry_id) = None
       THEN /\ last' = Reply("delete", user_id, entry_id, None, "ok", FALSE)
            /\ UNCHANGED sessions
       ELSE /\ sessions' = [sessions EXCEPT !.del =
                              [pc |-> "commit", user_id |-> user_id,
                               entry_id |-> entry_id, update_dict |-> <<>>,
                               now |-> 0]]
            /\ UNCHANGED last
  /\ UNCHANGED <<store, clock, nextId>>

\* await self.db.commit(): the flush emits DELETE ... WHERE id = :id (a
\* DELETE that matches no row only warns) and delete_entry returns True.
delete_entry_commit ==
  LET s == sessions.del IN
  /\ s.pc = "commit"
  /\ store' = [i \in DOMAIN store \ {s.entry_id} |-> store[i]]
  /\ last' = Reply("delete", s.user_id, s.entry_id, None, "ok", TRUE)
  /\ sessions' = [sessions EXCEPT !.del = IdleSession]
  /\ UNCHANGED <<clock, nextId>>

NextRace ==
  \/ nextId <= MaxRaceEntries /\ race_create_entry("A", RaceCreateInput)
  \/ \E u \in Users, i \in 1..MaxRaceEntries :
        update_entry_select(u, i, RaceUpdateInput)
  \/ update_entry_commit
  \/ update_entry_refresh
  \/ \E u \in Users, i \in 1..MaxRaceEntries : delete_entry_select(u, i)
  \/ delete_entry_commit

SpecRace == InitRace /\ [][NextRace]_vars

\* C17: however a concurrent update_entry and delete_entry on one entry
\* interleave, the update answers as in a serial order: with the updated
\* entry (the delete then removes it) or with not-found (the delete came
\* first), never with an error; and every stored entry is a whole row.
C17_RaceIsSerial ==
  /\ last.op = "update"
     => /\ last.status = "ok"
        /\ last.result # None
           => \A f \in DOMAIN last.args : last.result[1][f] = last.args[f]
  /\ \A i \in DOMAIN store :
        /\ store[i].id = i
        /\ NotNullOk(store[i])
        /\ store[i].title \in {RaceCreateInput.title, RaceUpdateInput.title}

(* ====================================================================== *)
(* Store failures                                                         *)
(* ====================================================================== *)
MaxFailEntries == 2

\* The awaits of a mutation at which the store may fail.
Faults == {"commit", "refresh"}

FailUpdateInputs == {[title |-> Some("t2")], [mood_rating |-> Some(1)]}

\* create_entry when the store fails: a failing commit leaves no row (get_db
\* rolls the session back); a failing refresh comes after the commit, so the
\* row is stored. The handler answers 500 either way.
create_entry_fault(user_id, entry_data, fault) ==
  /\ LET db_entry == new_entry(nextId, user_id, entry_data, DbNow(clock))
     IN  store' = IF fault = "commit" THEN store
                  ELSE [i \in DOMAIN store \cup {nextId} |->
                          IF i = nextId THEN db_entry ELSE store[i]]
  /\ last' = Reply("create", user_id, nextId, entry_data, "error", None)
  /\ nextId' = nextId + 1
  /\ UNCHANGED <<clock, sessions>>

\* update_entry when the store fails at the commit or at the refresh.
update_entry_fault(user_id, entry_id, update_dict, fault) ==
  LET found == select_entry(store, user_id, entry_id) IN
  /\ found # None
  /\ store' = IF fault = "commit" THEN store
              ELSE [store EXCEPT ![entry_id] =
                      apply_update(found[1], update_dict, utcnow(clock))]
  /\ last' = Reply("update", user_id, entry_id, update_dict, "error", None)
  /\ UNCHANGED <<clock, nextId, sessions>>

\* delete_entry when the commit fails (it has no refresh).
delete_entry_fault(user_id, entry_id) ==
  /\ select_entry(store, user_id, entry_id) # None
  /\ last' = Reply("delete", user_id, entry_id, None, "error", FALSE)
  /\ UNCHANGED <<store, clock, nextId, sessions>>

NextFail ==
  \/ \E u \in Users :
        nextId <= MaxFailEntries /\ create_entry(u, LifeCreateInput(u))
  \/ \E u \in Users, i \in 1..MaxFailEntries, d \in FailUpdateInputs :
        update_entry(u, i, d)
  \/ \E u \in Users, i \in 1..MaxFailEntries : delete_entry(u, i)
  \/ \E u \in Users, f \in Faults :
        nextId <= MaxFailEntries /\ create_entry_fault(u, LifeCreateInput(u), f)
  \/ \E u \in Users, i \in 1..MaxFailEntries, d \in FailUpdateInputs,
        f \in Faults : update_entry_fault(u, i, d, f)
  \/ \E u \in Users, i \in 1..MaxFailEntries : delete_entry_fault(u, i)

SpecFail == Init /\ [][NextFail]_vars

\* C18: when create_entry, update_entry or delete_entry fails in the store
\* (at the commit or at the refresh) the caller gets an error and the stored
\* entries are exactly those from before the operation.
C18_NoPartialFailure ==
  [][ (/\ last'.op \in {"create", "update", "delete"}
       /\ last'.status = "error")
      => store' = store ]_vars

(* ====================================================================== *)
(* Concurrent deletes                                                     *)
(* ====================================================================== *)
MaxTwinEntries == 2

\* Two delete requests, each in a session of its own. A slot keeps the answer
\* of its request until the next request starts in it.
TwinSlots == {"first", "second"}

IdleTwin == [pc |-> "idle", user_id |-> "A", entry_id |-> 0, result |-> FALSE]

InitTwin ==
  /\ store = <<>>
  /\ clock = Today * TicksPerDay
  /\ nextId = 1
  /\ last = NoReply
  /\ sessions = [k \in TwinSlots |-> IdleTwin]

\* create_entry while deletes may be in progress.
twin_create_entry(user_id, entry_data) ==
  /\ LET db_entry == new_entry(nextId, user_id, entry_data, DbNow(clock))
     IN  /\ store' = [i \in DOMAIN store \cup {nextId} |->
                        IF i = nextId THEN db_entry ELSE store[i]]
         /\ last' = Reply("create", user_id, nextId, entry_data, "ok",
                          Some(db_entry))
  /\ nextId' = nextId + 1
  /\ UNCHANGED <<clock, sessions>>

\* delete_entry up to its commit, in slot k: the lookup and db.delete(entry);
\* without a row it returns False at once.
twin_delete_select(k, user_id, entry_id) ==
  /\ sessions[k].pc \in {"idle", "done"}
  /\ IF select_entry(store, user_id, entry_id) = None
       THEN /\ last' = Reply("delete", user_id, entry_id, None, "ok", FALSE)
            /\ sessions' = [sessions EXCEPT ![k] =
                              [pc |-> "done", user_id |-> user_id,
                               entry_id |-> entry_id, result |-> FALSE]]
       ELSE /\ sessions' = [sessions EXCEPT ![k] =
                              [pc |-> "commit", user_id |-> user_id,
                               entry_id |-> entry_id, result |-> FALSE]]
            /\ UNCHANGED last
  /\ UNCHANGED <<store, clock, nextId>>

\* await self.db.commit() in slot k: the flush emits DELETE ... WHERE id = :id;
\* a DELETE that matches no row only warns, and delete_entry returns True.
twin_delete_commit(k) ==
  LET s == sessions[k] IN
  /\ s.pc = "commit"
  /\ store' = [i \in DOMAIN store \ {s.entry_id} |-> store[i]]
  /\ last' = Reply("delete", s.user_id, s.entry_id, None, "ok", TRUE)
  /\ sessions' = [sessions EXCEPT ![k] = [s EXCEPT !.pc = "done",
                                                   !.result = TRUE]]
  /\ UNCHANGED <<clock, nextId>>

NextTwin ==
  \/ \E u \in Users :
        nextId <= MaxTwinEntries /\ twin_create_entry(u, RaceCreateInput)
  \/ \E k \in TwinSlots, u \in Users, i \in 1..MaxTwinEntries :
        twin_delete_select(k, u, i)
  \/ \E k \in TwinSlots : twin_delete_commit(k)

SpecTwin == InitTwin /\ [][NextTwin]_vars

\* C21: of two delete_entry calls on the same entry, of which one found and
\* deleted it, exactly one has returned True and the other False, and the
\* entry is gone, however their lookups and commits interleave.
C21_OneDeleteWins ==
  (/\ \A k \in TwinSlots : sessions[k].pc = "done"
   /\ sessions["first"].entry_id = sessions["second"].entry_id
   /\ \E k \in TwinSlots : sessions[k].result)
  => /\ sessions["first"].result # sessions["second"].result
     /\ sessions["first"].entry_id \notin DOMAIN store

====
